---- MODULE Spec2Model ----
(***************************************************************************)
(* Voting core of the blog backend: the Vote collection (one row per user  *)
(* and target), the denormalised votes.{upvotes,downvotes,score} counters  *)
(* of Post and Comment documents, and the two request handlers votePost    *)
(* and voteComment.  A handler is an async function: every `await` is a    *)
(* point where another request may run, so each handler is modelled as one *)
(* action per awaited database call.                                       *)
(*                                                                         *)
(* Database calls follow the Mongoose semantics the source relies on:      *)
(*   - doc.save() of a loaded document validates the document against the  *)
(*     schema (min: 0, enum) and then writes only the paths whose value    *)
(*     was changed since it was loaded ($set of the modified paths);       *)
(*   - doc.save() of a document whose row is gone rejects                  *)
(*     (DocumentNotFoundError);                                            *)
(*   - Model.create() rejects with E11000 when a unique index is violated; *)
(*   - Model.findByIdAndDelete() of a missing row resolves to null.        *)
(* A rejected await is caught by the handler's try/catch and answered 500. *)
(*                                                                         *)
(* The second half of the module models the comment tree (addComment,      *)
(* updateComment, deleteComment, the two listings) and deletePost, with    *)
(* specifications of their own: SpecTree, SpecTwoPosts, SpecList and       *)
(* SpecAll. The last part models the accounts, the login route and the     *)
(* auth middleware (SpecLogin).                                            *)
(***************************************************************************)
EXTENDS Integers, FiniteSets, Sequences, TLC

\* ------------------------------------------------------------------ bounds
NumReq == 2        \* request slots that may be in flight at the same time
MaxRequests == 3   \* requests received in one behaviour (also caps the counters)
HistLen == 3       \* length of the recorded run of sequential requests

\* ------------------------------------------------------------- input sets
Users == {"A", "B"}
PostIds == {1, 2}
CommentIds == {1, 2}
Reqs == 1 .. NumReq

\* JavaScript null: as a scalar (a string field) and as a missing document/object
null == "null"
nullDoc == [isNull |-> TRUE]

\* voteSchema.targetType enum
TargetTypes == {"Post", "Comment"}
\* voteSchema.voteType enum, and the literal list the handlers test against
VoteTypes == {"upvote", "downvote"}
\* what a request body may carry as voteType
BodyVoteTypes == VoteTypes \cup {"sideways"}

VARIABLES
  Post,      \* Post collection:    id -> document or null
  Comment,   \* Comment collection: id -> document or null
  Vote,      \* Vote collection: set of rows
  req,       \* per request slot: position in the handler and its locals, and
             \* (not program state) whether it changed the Vote collection and
             \* what the target looked like when it started alone
  res,       \* the last response sent, with the request it answers
  received,  \* number of requests received so far
  hist,      \* per target: the last requests on it that ran one after another
  creq,      \* per request slot of the comment and post handlers: position and locals
  cres,      \* the last response of a comment or post handler, with its request
  clock,     \* number of comments created so far (orders _id and createdAt)
  tally,     \* (not program state) per counter: its initial value, plus the
             \* answered 201 addComment, minus the answered 200 deleteComment
  User,      \* User collection: e-mail address -> document
  lreq,      \* per request slot of the login route: position and locals
  lres,      \* the last response of the login route or the auth middleware
  now        \* Date.now(), in milliseconds

\* the state of the comment and post handlers
commentVars == <<creq, cres, clock, tally>>

\* the state of the accounts and of the login route
identityVars == <<User, lreq, lres, now>>

vars == <<Post, Comment, Vote, req, res, received, hist, creq, cres, clock, tally,
          User, lreq, lres, now>>

\* ------------------------------------------------------------ schema parts
\* votes sub-document defaults (postSchema.votes / commentSchema.votes)
votesDefault == [upvotes |-> 0, downvotes |-> 0, score |-> 0]

\* a null ObjectId reference (commentSchema.parentComment default) and an unset Date
noId == 0
noDate == 0

\* deleteComment 312: the content a soft-deleted comment is given
placeholder == "[Comment deleted]"

\* User.role: A is an ordinary user, B an administrator
Role == [u \in Users |-> IF u = "B" THEN "admin" ELSE "user"]

\* new Post({title, content, tags, author}) with the schema defaults
newPost(author) ==
  [author |-> author, votes |-> votesDefault, commentCount |-> 0]

\* new Comment({content, author, post, parentComment, depth}) with the schema
\* defaults; createdAt is the timestamp save() gives the new row
newComment(content, author, post, parentComment, depth, createdAt) ==
  [content |-> content, author |-> author, post |-> post,
   parentComment |-> parentComment, depth |-> depth, votes |-> votesDefault,
   isEdited |-> FALSE, editedAt |-> noDate, isDeleted |-> FALSE,
   replyCount |-> 0, createdAt |-> createdAt]

\* bcrypt.hash(password, salt) of the pre-save hook: a value that only
\* bcrypt.compare with the same password accepts
hash(password) == <<"bcrypt", password>>

\* the password every account was registered with
registeredPassword == "right"

\* the paths of a User document that the login route reads or writes
newUser(password, at) ==
  [password |-> hash(password), loginAttempts |-> 0, lockUntil |-> noDate,
   lastLogin |-> at]

\* the step by which Date.now() advances (six hours)
tickStep == 6 * 60 * 60 * 1000

\* a slot no login handler runs in
idleLReq ==
  [pc |-> "idle", email |-> null, password |-> null, user |-> nullDoc,
   update |-> nullDoc, status |-> 0]

noLRes == [op |-> null, email |-> null, password |-> null, status |-> 0]

\* the accounts after registration: nobody has tried to log in yet
InitIdentity ==
  /\ User = [u \in Users |-> newUser(registeredPassword, tickStep)]
  /\ lreq = [r \in Reqs |-> idleLReq]
  /\ lres = noLRes
  /\ now = tickStep

\* `${voteType}s`
CounterOf(voteType) == voteType \o "s"

Ids(targetType) == IF targetType = "Post" THEN PostIds ELSE CommentIds

Coll(targetType) == IF targetType = "Post" THEN Post ELSE Comment

\* the Vote collection without its unique index: no create is ever refused
UniqueKeyTaken_noIndex(user, targetId, targetType) == FALSE

\* voteSchema.index({user, targetId, targetType}, {unique: true})
UniqueKeyTaken(user, targetId, targetType) ==
  \E v \in Vote : v.user = user /\ v.targetId = targetId /\ v.targetType = targetType

\* min: 0 validators of votes.upvotes and votes.downvotes, run by save()
VotesValid(votes) == votes.upvotes >= 0 /\ votes.downvotes >= 0

\* a new ObjectId: any id no row carries and no request still holds
FreshId ==
  CHOOSE i \in 1 .. (Cardinality(Vote) + NumReq + 1) :
    /\ \A v \in Vote : v._id # i
    /\ \A r \in Reqs : req[r].existingVote = nullDoc \/ req[r].existingVote._id # i
    /\ \A j \in 1 .. (i - 1) :
         \/ \E v \in Vote : v._id = j
         \/ \E r \in Reqs : req[r].existingVote # nullDoc /\ req[r].existingVote._id = j

\* ------------------------------------------------------------------ helpers
RowsOn(targetType, id) ==
  {v \in Vote : v.targetType = targetType /\ v.targetId = id}

RowsOf(user, targetType, id) ==
  {v \in RowsOn(targetType, id) : v.user = user}

Running(r) == req[r].pc # "idle"

InFlightOn(targetType, id) ==
  {q \in Reqs : Running(q) /\ req[q].targetType = targetType /\ req[q].id = id}

\* a slot no handler runs in
idleReq ==
  [pc |-> "idle", user |-> null, targetType |-> null, id |-> 0,
   voteType |-> null, doc |-> nullDoc, existingVote |-> nullDoc,
   voteChange |-> nullDoc, wrote |-> FALSE,
   solo |-> FALSE, pre |-> nullDoc, preRows |-> {}]

\* a slot no comment or post handler runs in
idleCReq ==
  [pc |-> "idle", op |-> null, user |-> null, postId |-> noId,
   parentCommentId |-> noId, id |-> noId, content |-> null, doc |-> nullDoc,
   depth |-> 0, newId |-> noId, sort |-> null, skip |-> 0, limit |-> 0,
   comments |-> <<>>, replies |-> <<>>]

noCRes ==
  [op |-> null, user |-> null, id |-> noId, status |-> 0, message |-> null,
   data |-> nullDoc]

\* the counters as stored: what the tally starts from
CountersOf(P, C) ==
  [post |-> [i \in DOMAIN P |-> IF P[i] = nullDoc THEN 0 ELSE P[i].commentCount],
   reply |-> [i \in DOMAIN C |-> IF C[i] = nullDoc THEN 0 ELSE C[i].replyCount]]

noRes ==
  [user |-> null, targetType |-> null, id |-> 0, voteType |-> null,
   status |-> 0, error |-> null, votes |-> nullDoc, userVote |-> null]

\* res.status(status).json(...) answering the request (user, targetType, id, voteType)
Response(user, targetType, id, voteType, status, error, votes, userVote) ==
  [user |-> user, targetType |-> targetType, id |-> id, voteType |-> voteType,
   status |-> status, error |-> error, votes |-> votes, userVote |-> userVote]

\* end of a handler run of slot r: the response is sent, the locals die, and
\* the run is appended to the target's history when it ran alone
Finish(r, status, error, votes, userVote) ==
  LET q == req[r]
      entry == [user |-> q.user, voteType |-> q.voteType,
                status |-> status, pre |-> q.pre, preRows |-> q.preRows]
      old == hist[q.targetType][q.id]
      kept == IF Len(old) < HistLen THEN old ELSE Tail(old)
  IN /\ req' = [req EXCEPT ![r] = idleReq]
     /\ UNCHANGED received
     /\ res' = Response(q.user, q.targetType, q.id, q.voteType,
                         status, error, votes, userVote)
     /\ hist' = [hist EXCEPT ![q.targetType][q.id] =
                   IF q.solo THEN Append(kept, entry) ELSE <<>>]

\* -------------------------------------------------------------------- Init
\* the database after one post and one comment on it were created: both carry
\* the schema defaults, nobody has voted, ids 2 name no document
Init ==
  /\ Post = [i \in PostIds |->
               IF i = 1 THEN [newPost("A") EXCEPT !.commentCount = 1] ELSE nullDoc]
  /\ Comment = [i \in CommentIds |->
                  IF i = 1 THEN newComment("text", "A", 1, noId, 0, 1) ELSE nullDoc]
  /\ Vote = {}
  /\ req = [r \in Reqs |-> idleReq]
  /\ res = noRes
  /\ received = 0
  /\ hist = [t \in TargetTypes |-> [i \in Ids(t) |-> <<>>]]
  /\ creq = [r \in Reqs |-> idleCReq]
  /\ cres = noCRes
  /\ clock = 1
  /\ tally = CountersOf(Post, Comment)
  /\ InitIdentity

\* ---------------------------------------------------------------- handlers
\* the voteType check left out: every body is let through
validVoteType_any(voteType) == TRUE

\* votePost 299 / voteComment 347: ["upvote", "downvote"].includes(voteType)
validVoteType(voteType) == voteType \in VoteTypes

\* votePost 296-312 / voteComment 344-360: voteType check, then findById
castVote_findById(r, targetType) ==
  /\ UNCHANGED <<commentVars, identityVars>>
  /\ ~Running(r)
  /\ \A q \in Reqs : q < r => Running(q)
  /\ received < MaxRequests
  /\ received' = received + 1
  /\ \E user \in Users, id \in Ids(targetType), voteType \in BodyVoteTypes :
       IF ~validVoteType(voteType)
       THEN /\ res' = Response(user, targetType, id, voteType, 400, null, nullDoc, null)
            /\ UNCHANGED <<Post, Comment, Vote, req, hist>>
       ELSE IF Coll(targetType)[id] = nullDoc
       THEN /\ res' = Response(user, targetType, id, voteType, 404, null, nullDoc, null)
            /\ UNCHANGED <<Post, Comment, Vote, req, hist>>
       ELSE LET doc == Coll(targetType)[id].votes
                others == InFlightOn(targetType, id) \ {r}
                alone == others = {}
            IN /\ req' = [q \in Reqs |->
                    IF q = r
                    THEN [pc |-> "findOne", user |-> user, targetType |-> targetType,
                          id |-> id, voteType |-> voteType, doc |-> doc,
                          existingVote |-> nullDoc, voteChange |-> nullDoc,
                          wrote |-> FALSE,
                          solo |-> alone,
                          pre |-> IF alone THEN doc ELSE nullDoc,
                          preRows |-> IF alone THEN RowsOn(targetType, id) ELSE {}]
                    ELSE IF q \in others
                    THEN [req[q] EXCEPT !.solo = FALSE, !.pre = nullDoc, !.preRows = {}]
                    ELSE req[q]]
               /\ hist' = [hist EXCEPT ![targetType][id] = IF alone THEN @ ELSE <<>>]
               /\ UNCHANGED <<Post, Comment, Vote, res>>

\* votePost 314-319 / voteComment 362-367: Vote.findOne({user, targetId, targetType})
castVote_findOne(r, targetType) ==
  /\ req[r].pc = "findOne"
  /\ req[r].targetType = targetType
  /\ LET found == RowsOf(req[r].user, targetType, req[r].id)
     IN IF found = {}
        THEN req' = [req EXCEPT ![r].pc = "ledger"]
        ELSE \E v \in found :
               req' = [req EXCEPT ![r].pc = "ledger",
                                  ![r].existingVote = [_id |-> v._id, voteType |-> v.voteType]]
  /\ UNCHANGED <<Post, Comment, Vote, res, received, hist>>
  /\ UNCHANGED <<commentVars, identityVars>>

\* votePost 321 / voteComment 369: let voteChange = { upvotes: 0, downvotes: 0 }
voteChangeZero == [upvotes |-> 0, downvotes |-> 0]

\* the toggle branch deleting the row but leaving voteChange at zero
removeChange_unset(voteType) == voteChangeZero

\* votePost 327 / voteComment 375: voteChange[`${voteType}s`] = -1
removeChange(voteType) ==
  [voteChangeZero EXCEPT ![CounterOf(voteType)] = -1]

\* the switch branch counting the new vote but not taking back the old one
switchChange_newOnly(oldVoteType, voteType) ==
  [voteChangeZero EXCEPT ![CounterOf(voteType)] = 1]

\* votePost 333-334 / voteComment 381-382
switchChange(oldVoteType, voteType) ==
  [[voteChangeZero EXCEPT ![CounterOf(oldVoteType)] = -1]
                   EXCEPT ![CounterOf(voteType)] = 1]

\* votePost 344 / voteComment 392: voteChange[`${voteType}s`] = 1
createChange(voteType) ==
  [voteChangeZero EXCEPT ![CounterOf(voteType)] = 1]

\* votePost 323-345 / voteComment 371-393: the one write to the Vote collection
castVote_ledger(r, targetType) ==
  /\ UNCHANGED <<commentVars, identityVars>>
  /\ req[r].pc = "ledger"
  /\ req[r].targetType = targetType
  /\ LET q == req[r]
         existingVote == q.existingVote
     IN IF existingVote # nullDoc /\ existingVote.voteType = q.voteType
        THEN \* remove vote (toggle): Vote.findByIdAndDelete(existingVote._id)
             /\ Vote' = {v \in Vote : v._id # existingVote._id}
             /\ req' = [req EXCEPT ![r].pc = "updateVoteScore",
                                   ![r].wrote = (Vote' # Vote),
                                   ![r].voteChange = removeChange(q.voteType)]
             /\ UNCHANGED <<Post, Comment, res, received, hist>>
        ELSE IF existingVote # nullDoc
        THEN \* change vote type: existingVote.voteType = voteType; existingVote.save()
             IF \E v \in Vote : v._id = existingVote._id
             THEN /\ Vote' = {IF v._id = existingVote._id
                              THEN [v EXCEPT !.voteType = q.voteType] ELSE v : v \in Vote}
                  /\ req' = [req EXCEPT ![r].pc = "updateVoteScore",
                                        ![r].wrote = TRUE,
                                        ![r].existingVote.voteType = q.voteType,
                                        ![r].voteChange =
                                           switchChange(existingVote.voteType, q.voteType)]
                  /\ UNCHANGED <<Post, Comment, res, received, hist>>
             ELSE /\ Finish(r, 500, "DocumentNotFoundError", nullDoc, null)
                  /\ UNCHANGED <<Post, Comment, Vote>>
        ELSE \* new vote: Vote.create({user, targetId, targetType, voteType})
             IF UniqueKeyTaken(q.user, q.id, targetType)
             THEN /\ Finish(r, 500, "E11000", nullDoc, null)
                  /\ UNCHANGED <<Post, Comment, Vote>>
             ELSE IF q.voteType \notin VoteTypes
             THEN /\ Finish(r, 500, "ValidationError", nullDoc, null)
                  /\ UNCHANGED <<Post, Comment, Vote>>
             ELSE /\ Vote' = Vote \cup {[_id |-> FreshId, user |-> q.user,
                                         targetType |-> targetType, targetId |-> q.id,
                                         voteType |-> q.voteType]}
                  /\ req' = [req EXCEPT ![r].pc = "updateVoteScore",
                                        ![r].wrote = TRUE,
                                        ![r].voteChange = createChange(q.voteType)]
                  /\ UNCHANGED <<Post, Comment, res, received, hist>>

\* the score taken as the number of votes cast
scoreOf_total(upvotes, downvotes) == upvotes + downvotes

\* updateVoteScore, first line: this.votes.score = this.votes.upvotes - this.votes.downvotes
scoreOf(upvotes, downvotes) == upvotes - downvotes

\* votePost 357-360 / voteComment 405-408, read after the locals were updated
userVoteOf(existingVote, voteType) ==
  IF existingVote # nullDoc /\ existingVote.voteType = voteType THEN null ELSE voteType

\* the $set that save() sends: the paths whose value differs from the loaded one
modifiedPaths(loaded, local) ==
  {p \in {"upvotes", "downvotes", "score"} : local[p] # loaded[p]}

\* votePost 347-362 / voteComment 395-410: add voteChange to the loaded counters,
\* updateVoteScore() (recompute the score, save), then the response
castVote_updateVoteScore(r, targetType) ==
  /\ UNCHANGED <<commentVars, identityVars>>
  /\ req[r].pc = "updateVoteScore"
  /\ req[r].targetType = targetType
  /\ LET q == req[r]
         upvotes == q.doc.upvotes + q.voteChange.upvotes
         downvotes == q.doc.downvotes + q.voteChange.downvotes
         local == [upvotes |-> upvotes, downvotes |-> downvotes,
                   score |-> scoreOf(upvotes, downvotes)]
         stored == Coll(targetType)[q.id]
         written == [p \in {"upvotes", "downvotes", "score"} |->
                       IF p \in modifiedPaths(q.doc, local) THEN local[p] ELSE stored.votes[p]]
     IN IF ~VotesValid(local)
        THEN /\ Finish(r, 500, "ValidationError", nullDoc, null)
             /\ UNCHANGED <<Post, Comment, Vote>>
        ELSE IF stored = nullDoc
        THEN /\ Finish(r, 500, "DocumentNotFoundError", nullDoc, null)
             /\ UNCHANGED <<Post, Comment, Vote>>
        ELSE /\ Post' = IF targetType = "Post"
                        THEN [Post EXCEPT ![q.id].votes = written] ELSE Post
             /\ Comment' = IF targetType = "Comment"
                           THEN [Comment EXCEPT ![q.id].votes = written] ELSE Comment
             /\ Finish(r, 200, null, local, userVoteOf(q.existingVote, q.voteType))
             /\ UNCHANGED Vote

\* ------------------------------------------------- the handlers' steps, named
votePost_findById(r) == castVote_findById(r, "Post")
votePost_findOne(r) == castVote_findOne(r, "Post")
votePost_ledger(r) == castVote_ledger(r, "Post")
votePost_updateVoteScore(r) == castVote_updateVoteScore(r, "Post")

voteComment_findById(r) == castVote_findById(r, "Comment")
voteComment_findOne(r) == castVote_findOne(r, "Comment")
voteComment_ledger(r) == castVote_ledger(r, "Comment")
voteComment_updateVoteScore(r) == castVote_updateVoteScore(r, "Comment")

Next ==
  \/ \E r \in Reqs : votePost_findById(r)
  \/ \E r \in Reqs : votePost_findOne(r)
  \/ \E r \in Reqs : votePost_ledger(r)
  \/ \E r \in Reqs : votePost_updateVoteScore(r)
  \/ \E r \in Reqs : voteComment_findById(r)
  \/ \E r \in Reqs : voteComment_findOne(r)
  \/ \E r \in Reqs : voteComment_ledger(r)
  \/ \E r \in Reqs : voteComment_updateVoteScore(r)

Spec == Init /\ [][Next]_vars

\* ================================================================== claims
Existing(targetType) == {i \in Ids(targetType) : Coll(targetType)[i] # nullDoc}

VotesOf(P, C, targetType, id) ==
  IF targetType = "Post" THEN P[id].votes ELSE C[id].votes

Stored(targetType, id) == VotesOf(Post, Comment, targetType, id)

\* C1: in every reachable state, interleaved vote requests included, every
\* stored Post and Comment has votes.score = votes.upvotes - votes.downvotes.
C1_ScoreIsDifference ==
  \A t \in TargetTypes : \A i \in Existing(t) :
    Stored(t, i).score = Stored(t, i).upvotes - Stored(t, i).downvotes

\* C5: in every reachable state the Vote collection holds at most one row per
\* (user, targetType, targetId), whatever the interleaving of vote requests.
C5_OneRowPerUserAndTarget ==
  \A v \in Vote : \A w \in Vote :
    (v.user = w.user /\ v.targetType = w.targetType /\ v.targetId = w.targetId)
      => v = w

\* two first-time votes of one user on one target ran concurrently: one created
\* the row, the create of the other was refused by the unique index
C5_Witness ==
  /\ res.status = 500 /\ res.error = "E11000"
  /\ Cardinality(RowsOf(res.user, res.targetType, res.id)) = 1

\* C6: a request whose create loses to the uniqueness constraint is handled as
\* "vote already exists" (it re-reads the ledger and toggles or switches): it
\* is not answered with a server error.
C6_LostCreateIsNotAnError ==
  ~(res.status = 500 /\ res.error = "E11000")

\* C7: stored upvotes and downvotes are never negative, and a delta that would
\* drive a counter below zero is clamped to zero: the request does not fail.
C7_ClampedAtZero ==
  /\ \A t \in TargetTypes : \A i \in Existing(t) :
       Stored(t, i).upvotes >= 0 /\ Stored(t, i).downvotes >= 0
  /\ ~(res.status = 500 /\ res.error = "ValidationError")

\* C8: a vote cast is one atomic unit: no state shows a Vote row created,
\* flipped or deleted by a request whose counter change is not applied, and a
\* request that changed the Vote collection does not end in an error.
C8_LedgerAndCountersTogether ==
  /\ [](\A r \in Reqs : ~(req[r].pc = "updateVoteScore" /\ req[r].wrote))
  /\ [][\A r \in Reqs :
          (req[r].pc = "updateVoteScore" /\ req[r].wrote /\ req'[r].pc = "idle")
            => res'.status = 200]_vars

\* the step receives a request
Received == received' = received + 1
\* the slots in which the step starts a handler run
Started == {r \in Reqs : req[r].pc = "idle" /\ req'[r].pc = "findOne"}
\* the slots whose handler run the step ends
Ended == {r \in Reqs : req[r].pc # "idle" /\ req'[r].pc = "idle"}

\* C9: a vote request whose voteType is neither upvote nor downvote is answered
\* 400, one on an id that names no Post/Comment is answered 404; neither
\* creates, changes or deletes a Vote row or changes a counter; and only
\* requests with a valid voteType on an existing target get any further.
C9_RejectedRequestsChangeNothing ==
  [][Received =>
       IF Started = {}
       THEN /\ res'.status = IF res'.voteType \notin VoteTypes THEN 400 ELSE 404
            /\ res'.status = 404 => Coll(res'.targetType)[res'.id] = nullDoc
            /\ UNCHANGED <<Post, Comment, Vote>>
       ELSE \A r \in Started :
              /\ req'[r].voteType \in VoteTypes
              /\ Coll(req'[r].targetType)[req'[r].id] # nullDoc]_vars

\* both rejections were answered while votes were on record
C9_Witness ==
  /\ res.status = 404
  /\ Vote # {}
  /\ \E t \in TargetTypes : \E i \in Existing(t) : Stored(t, i).upvotes > 0

\* C10: a successful vote response carries the counters as stored for the
\* target when the request completes, and userVote is the voteType of the
\* caller's Vote row for the target, or null when the caller has none.
C10_ResponseMatchesStore ==
  [][\A r \in Ended :
       res'.status = 200 =>
         /\ res'.votes = VotesOf(Post', Comment', res'.targetType, res'.id)
         /\ \/ /\ res'.userVote = null
               /\ \A v \in Vote' : ~(v.user = res'.user /\ v.targetType = res'.targetType
                                        /\ v.targetId = res'.id)
            \/ \E v \in Vote' : /\ v.user = res'.user /\ v.targetType = res'.targetType
                                 /\ v.targetId = res'.id
                                 /\ v.voteType = res'.userVote]_vars

\* ---- requests that ran one after another on a target (hist)
Quiet(targetType, id) == InFlightOn(targetType, id) = {}

\* the counters of the target right after the k-th recorded request
After(targetType, id, k) ==
  IF k < Len(hist[targetType][id])
  THEN hist[targetType][id][k + 1].pre
  ELSE Stored(targetType, id)

\* the Vote rows of the target right after the k-th recorded request
RowsAfter(targetType, id, k) ==
  IF k < Len(hist[targetType][id])
  THEN hist[targetType][id][k + 1].preRows
  ELSE RowsOn(targetType, id)

\* the rows of a user among rows, and the vote types they carry
By(user, rows) == {v \in rows : v.user = user}
Held(user, rows) == {v.voteType : v \in By(user, rows)}

\* positions k such that requests k and k+1 of the run were both answered 200
\* and were cast by the same user
Pairs(targetType, id) ==
  {k \in 1 .. (Len(hist[targetType][id]) - 1) :
     /\ hist[targetType][id][k].status = 200
     /\ hist[targetType][id][k + 1].status = 200
     /\ hist[targetType][id][k].user = hist[targetType][id][k + 1].user}

\* C2 as stated (toggle-off): when a user U casts v on a target T (and so holds
\* v) and then casts v on T again, with no other vote on T in between, no Vote
\* row is left for (U, T) and T's upvotes, downvotes and score are what they
\* were before the first cast.
C2_ToggleOffRestores_Stated ==
  \A t \in TargetTypes : \A i \in Existing(t) :
    Quiet(t, i) =>
      \A k \in Pairs(t, i) :
        LET first == hist[t][i][k]
            second == hist[t][i][k + 1]
        IN (/\ first.voteType = second.voteType
            /\ first.voteType \notin Held(first.user, first.preRows))
           => /\ By(first.user, RowsAfter(t, i, k + 1)) = {}
              /\ After(t, i, k + 1) = first.pre

\* C2 amended (toggle-off): when a user U holding no vote on a target T casts
\* v on T and then casts v on T again, with no other vote on T in between, no
\* Vote row is left for (U, T) and T's upvotes, downvotes and score are what
\* they were before the first cast.
C2_ToggleOffRestores ==
  \A t \in TargetTypes : \A i \in Existing(t) :
    Quiet(t, i) =>
      \A k \in Pairs(t, i) :
        LET first == hist[t][i][k]
            second == hist[t][i][k + 1]
        IN (first.voteType = second.voteType /\ By(first.user, first.preRows) = {})
           => /\ By(first.user, RowsAfter(t, i, k + 1)) = {}
              /\ After(t, i, k + 1) = first.pre

\* a user without a vote on a target that already carries votes cast the same
\* vote twice in a row, and nobody is voting on the target now
C2_Witness ==
  \E t \in TargetTypes : \E i \in Existing(t) :
    /\ Quiet(t, i)
    /\ Len(hist[t][i]) = 3
    /\ 2 \in Pairs(t, i)
    /\ hist[t][i][2].voteType = hist[t][i][3].voteType
    /\ hist[t][i][2].preRows # {}
    /\ By(hist[t][i][2].user, hist[t][i][2].preRows) = {}

OtherVote(voteType) == IF voteType = "upvote" THEN "downvote" ELSE "upvote"

C4_ScenarioABA ==
  \A i \in Existing("Post") :
    LET h == hist["Post"][i]
        is(k, user, voteType) == /\ Len(h) >= k
                                 /\ h[k].user = user /\ h[k].voteType = voteType
        fresh == /\ Len(h) >= 1
                 /\ h[1].pre = votesDefault /\ h[1].preRows = {}
        counters(u, d, sc) == [upvotes |-> u, downvotes |-> d, score |-> sc]
    IN (Quiet("Post", i) /\ fresh /\ is(1, "A", "upvote")) =>
         /\ h[1].status = 200
         /\ After("Post", i, 1) = counters(1, 0, 1)
         /\ is(2, "B", "downvote") =>
              /\ h[2].status = 200
              /\ After("Post", i, 2) = counters(1, 1, 0)
              /\ is(3, "A", "downvote") =>
                   /\ h[3].status = 200
                   /\ After("Post", i, 3) = counters(0, 2, -2)
                   /\ Cardinality(RowsAfter("Post", i, 3)) = 2
                   /\ Held("A", RowsAfter("Post", i, 3)) = {"downvote"}
                   /\ Held("B", RowsAfter("Post", i, 3)) = {"downvote"}

\* the three requests of the scenario have all been answered
C4_Witness ==
  \E i \in Existing("Post") :
    LET h == hist["Post"][i]
    IN /\ Quiet("Post", i)
       /\ Len(h) = 3
       /\ h[1].pre = votesDefault /\ h[1].preRows = {}
       /\ h[1].user = "A" /\ h[1].voteType = "upvote"
       /\ h[2].user = "B" /\ h[2].voteType = "downvote"
       /\ h[3].user = "A" /\ h[3].voteType = "downvote"
       /\ Stored("Post", i).score = -2

\* ======================================================= the comment tree
\* addComment, updateComment, deleteComment (commentController.js) and
\* deletePost (postController), one action per awaited database call.
\*   - Model.findByIdAndUpdate(id, {$inc: ...}) is one atomic update of the
\*     stored row; it runs no schema validator and resolves to null when the
\*     row is gone;
\*   - save() of a new document inserts it; save() of a loaded document writes
\*     the paths assigned a value different from the loaded one.
\* createPost, updatePost and getPostBySlug write only title, content, tags,
\* slug, readTime and views, none of which is part of the documents here.

\* ------------------------------------------------------------------ bounds
MaxCommentRequests == 2  \* comment requests received in one behaviour
MaxMixedRequests == 1    \* requests received where votes, comments and posts mix
SeedReplies == 7         \* most replies a listed comment has in the listing states

\* ------------------------------------------------------------- input sets
\* request bodies' content: a text, nothing, and blanks only
Contents == {"text", "", " "}
\* the rows of the Comment collection
CommentSlots == 1 .. (3 + MaxCommentRequests)
\* ids a request may name: every comment ever created and one that never was
KnownIds == {i \in DOMAIN Comment : i <= clock + 1}

\* body("content").trim() / commentSchema.content trim: true
trim(content) == IF content = " " THEN "" ELSE content

\* commentValidation: body("content").trim().isLength({ min: 1, max: 1000 })
contentValid(content) == Len(trim(content)) >= 1 /\ Len(trim(content)) <= 1000

\* new Date(): some instant after the dates already stored
Now == 1

CRunning(r) == creq[r].pc # "idle"

\* a request arrives and is given the first free slot
CReceive(r) ==
  /\ ~CRunning(r)
  /\ \A q \in Reqs : q < r => CRunning(q)
  /\ received < MaxCommentRequests
  /\ received' = received + 1

\* req.user, req.params and req.body of a request
CRequest(op, user, postId, parentCommentId, id, content) ==
  [idleCReq EXCEPT !.op = op, !.user = user, !.postId = postId,
                   !.parentCommentId = parentCommentId, !.id = id,
                   !.content = content]

\* res.status(status).json({message, data}) answering request q
CAnswer(q, status, message, data) ==
  [op |-> q.op, user |-> q.user, id |-> q.id,
   status |-> status, message |-> message, data |-> data]

\* the tally after request q was answered with status
Tallied(q, status) ==
  IF q.op = "addComment" /\ status = 201
  THEN [post |-> [tally.post EXCEPT ![q.postId] = @ + 1],
        reply |-> IF q.parentCommentId = noId THEN tally.reply
                  ELSE [tally.reply EXCEPT ![q.parentCommentId] = @ + 1]]
  ELSE IF q.op = "deleteComment" /\ status = 200
  THEN [post |-> [tally.post EXCEPT ![q.doc.post] = @ - 1],
        reply |-> IF q.doc.parentComment = noId THEN tally.reply
                  ELSE [tally.reply EXCEPT ![q.doc.parentComment] = @ - 1]]
  ELSE tally

\* a request answered before its handler awaited anything but its first read
CReject(q, status, message) ==
  /\ cres' = CAnswer(q, status, message, nullDoc)
  /\ UNCHANGED <<creq, tally>>

\* a request that goes on: its locals are kept in slot r
CProceed(r, q) ==
  /\ creq' = [creq EXCEPT ![r] = q]
  /\ UNCHANGED <<cres, tally>>

\* end of the handler run of slot r
CFinish(r, status, message, data) ==
  /\ creq' = [creq EXCEPT ![r] = idleCReq]
  /\ cres' = CAnswer(creq[r], status, message, data)
  /\ tally' = Tallied(creq[r], status)

\* ------------------------------------------------------------- addComment
\* a reply given the depth of its parent
replyDepth_same(parentDepth) == parentDepth

\* addComment 46: depth = parentComment.depth + 1
replyDepth(parentDepth) == parentDepth + 1

\* a nesting limit one level deeper
tooDeep_four(depth) == depth > 4

\* addComment 49: if (depth > 3)
tooDeep(depth) == depth > 3

\* commentSchema.depth max: 3, run by save()
depthValid(depth) == depth <= 3

\* addComment 12-34: validationResult, Post.findById(postId), if (parentCommentId)
addComment_findById(r) ==
  /\ CReceive(r)
  /\ \E user \in Users, postId \in PostIds,
        parentCommentId \in {noId} \cup KnownIds, content \in Contents :
       LET q == CRequest("addComment", user, postId, parentCommentId, noId, content)
       IN IF ~contentValid(content)
          THEN CReject(q, 400, "Validation failed")
          ELSE IF Post[postId] = nullDoc
          THEN CReject(q, 404, "Post not found")
          ELSE IF parentCommentId # noId
          THEN CProceed(r, [q EXCEPT !.pc = "add_findParent"])
          ELSE CProceed(r, [q EXCEPT !.pc = "add_save", !.depth = 0])
  /\ UNCHANGED <<Post, Comment, Vote, req, res, hist, clock, identityVars>>

\* addComment 38-55: Comment.findById(parentCommentId), the depth and its limit
addComment_findParent(r) ==
  /\ creq[r].pc = "add_findParent"
  /\ LET q == creq[r]
         parentComment == Comment[q.parentCommentId]
     IN IF parentComment = nullDoc
        THEN CFinish(r, 404, "Parent comment not found", nullDoc)
        ELSE IF tooDeep(replyDepth(parentComment.depth))
        THEN CFinish(r, 400, "Maximum comment nesting depth reached", nullDoc)
        ELSE CProceed(r, [q EXCEPT !.pc = "add_save",
                                   !.depth = replyDepth(parentComment.depth)])
  /\ UNCHANGED <<Post, Comment, Vote, req, res, received, hist, clock, identityVars>>

\* addComment 58-67: new Comment({...}).save()
addComment_save(r) ==
  /\ creq[r].pc = "add_save"
  /\ LET q == creq[r]
         _id == clock + 1
     IN IF ~depthValid(q.depth)
        THEN /\ CFinish(r, 500, "ValidationError", nullDoc)
             /\ UNCHANGED <<Comment, clock>>
        ELSE /\ Comment' = [Comment EXCEPT ![_id] =
                              newComment(trim(q.content), q.user, q.postId,
                                         q.parentCommentId, q.depth, _id)]
             /\ clock' = _id
             /\ CProceed(r, [q EXCEPT !.pc = "add_incPost", !.newId = _id])
  /\ UNCHANGED <<Post, Vote, req, res, received, hist, identityVars>>

\* a $set of the amount in place of the $inc
incCommentCount_set(P, postId, by) ==
  IF P[postId] = nullDoc THEN P
  ELSE [P EXCEPT ![postId].commentCount = by]

\* Post.findByIdAndUpdate(postId, { $inc: { commentCount: by } })
incCommentCount(P, postId, by) ==
  IF P[postId] = nullDoc THEN P
  ELSE [P EXCEPT ![postId].commentCount = @ + by]

\* Comment.findByIdAndUpdate(id, { $inc: { replyCount: by } })
incReplyCount(C, id, by) ==
  IF C[id] = nullDoc THEN C
  ELSE [C EXCEPT ![id].replyCount = @ + by]

\* addComment 70-72: the post's commentCount, then if (parentComment)
addComment_incPost(r) ==
  /\ creq[r].pc = "add_incPost"
  /\ Post' = incCommentCount(Post, creq[r].postId, 1)
  /\ IF creq[r].parentCommentId # noId
     THEN CProceed(r, [creq[r] EXCEPT !.pc = "add_incParent"])
     ELSE CFinish(r, 201, "Comment added successfully", nullDoc)
  /\ UNCHANGED <<Comment, Vote, req, res, received, hist, clock, identityVars>>

\* addComment 73-82: the parent's replyCount, then the response
addComment_incParent(r) ==
  /\ creq[r].pc = "add_incParent"
  /\ Comment' = incReplyCount(Comment, creq[r].parentCommentId, 1)
  /\ CFinish(r, 201, "Comment added successfully", nullDoc)
  /\ UNCHANGED <<Post, Vote, req, res, received, hist, clock, identityVars>>

\* ------------------------------------------------- save of a loaded comment
\* the paths the handlers assign
AssignedPaths == {"content", "isEdited", "editedAt", "isDeleted"}

\* the row after save(): the assigned paths whose value differs from the
\* loaded one are set, every other path keeps what is stored
savedComment(stored, loaded, local) ==
  [p \in DOMAIN stored |->
     IF p \in AssignedPaths /\ local[p] # loaded[p] THEN local[p] ELSE stored[p]]

\* comment.save() of slot r's loaded comment, changed to local, then `then`.
\* The validators of save() also see the paths the handler did not assign;
\* whether a stored replyCount below its min: 0 makes them reject depends on
\* the Mongoose version and options, so both outcomes are taken.
saveComment(r, local, then) ==
  LET q == creq[r]
      stored == Comment[q.id]
  IN \E strict \in BOOLEAN :
       IF strict /\ local.replyCount < 0
       THEN /\ CFinish(r, 500, "ValidationError", nullDoc)
            /\ UNCHANGED Comment
       ELSE IF stored = nullDoc
       THEN /\ CFinish(r, 500, "DocumentNotFoundError", nullDoc)
            /\ UNCHANGED Comment
       ELSE /\ Comment' = [Comment EXCEPT ![q.id] = savedComment(stored, q.doc, local)]
            /\ then

\* ---------------------------------------------------------- updateComment
\* updateComment 254: comment.author.toString() === req.user._id.toString()
mayUpdate(comment, user) == comment.author = user

\* updateComment 232-259: validationResult, Comment.findById(id), the author check
updateComment_findById(r) ==
  /\ CReceive(r)
  /\ \E user \in Users, id \in KnownIds, content \in Contents :
       LET q == CRequest("updateComment", user, noId, noId, id, content)
       IN IF ~contentValid(content)
          THEN CReject(q, 400, "Validation failed")
          ELSE IF Comment[id] = nullDoc
          THEN CReject(q, 404, "Comment not found")
          ELSE IF ~mayUpdate(Comment[id], user)
          THEN CReject(q, 403, "Not authorized to update this comment")
          ELSE CProceed(r, [q EXCEPT !.pc = "upd_save", !.doc = Comment[id]])
  /\ UNCHANGED <<Post, Comment, Vote, req, res, hist, clock, identityVars>>

\* updateComment 262-273: content, isEdited, editedAt, comment.save()
updateComment_save(r) ==
  /\ creq[r].pc = "upd_save"
  /\ LET q == creq[r]
         local == [q.doc EXCEPT !.content = trim(q.content),
                                !.isEdited = TRUE,
                                !.editedAt = Now]
     IN saveComment(r, local, CFinish(r, 200, "Comment updated successfully", nullDoc))
  /\ UNCHANGED <<Post, Vote, req, res, received, hist, clock, identityVars>>

\* ---------------------------------------------------------- deleteComment
\* only the author may delete
mayDelete_authorOnly(comment, user) == comment.author = user

\* deleteComment 300-303: the author, or a user whose role is admin
mayDelete(comment, user) == comment.author = user \/ Role[user] = "admin"

\* deleteComment 288-308: Comment.findById(id), the author-or-admin check
deleteComment_findById(r) ==
  /\ CReceive(r)
  /\ \E user \in Users, id \in KnownIds :
       LET q == CRequest("deleteComment", user, noId, noId, id, null)
       IN IF Comment[id] = nullDoc
          THEN CReject(q, 404, "Comment not found")
          ELSE IF ~mayDelete(Comment[id], user)
          THEN CReject(q, 403, "Not authorized to delete this comment")
          ELSE CProceed(r, [q EXCEPT !.pc = "del_save", !.doc = Comment[id]])
  /\ UNCHANGED <<Post, Comment, Vote, req, res, hist, clock, identityVars>>

\* deleteComment 311-313: isDeleted, content, comment.save()
deleteComment_save(r) ==
  /\ creq[r].pc = "del_save"
  /\ LET q == creq[r]
         local == [q.doc EXCEPT !.isDeleted = TRUE, !.content = placeholder]
     IN saveComment(r, local, CProceed(r, [q EXCEPT !.pc = "del_decPost"]))
  /\ UNCHANGED <<Post, Vote, req, res, received, hist, clock, identityVars>>

\* deleteComment 316-320: the post's commentCount, then if (comment.parentComment)
deleteComment_decPost(r) ==
  /\ creq[r].pc = "del_decPost"
  /\ Post' = incCommentCount(Post, creq[r].doc.post, -1)
  /\ IF creq[r].doc.parentComment # noId
     THEN CProceed(r, [creq[r] EXCEPT !.pc = "del_decParent"])
     ELSE CFinish(r, 200, "Comment deleted successfully", nullDoc)
  /\ UNCHANGED <<Comment, Vote, req, res, received, hist, clock, identityVars>>

\* deleteComment 321-329: the parent's replyCount, then the response
deleteComment_decParent(r) ==
  /\ creq[r].pc = "del_decParent"
  /\ Comment' = incReplyCount(Comment, creq[r].doc.parentComment, -1)
  /\ CFinish(r, 200, "Comment deleted successfully", nullDoc)
  /\ UNCHANGED <<Post, Vote, req, res, received, hist, clock, identityVars>>

\* -------------------------------------------------------------- deletePost
\* deletePost 268-271: the author, or a user whose role is admin
mayDeletePost(post, user) == post.author = user \/ Role[user] = "admin"

\* deletePost 250-278: Post.findById(id), the author-or-admin check
deletePost_findById(r) ==
  /\ CReceive(r)
  /\ \E user \in Users, id \in PostIds :
       LET q == CRequest("deletePost", user, id, noId, id, null)
       IN IF Post[id] = nullDoc
          THEN CReject(q, 404, "Post not found")
          ELSE IF ~mayDeletePost(Post[id], user)
          THEN CReject(q, 403, "Not authorized to delete this post")
          ELSE CProceed(r, [q EXCEPT !.pc = "dp_delete"])
  /\ UNCHANGED <<Post, Comment, Vote, req, res, hist, clock, identityVars>>

\* deletePost 272: Post.findByIdAndDelete(id)
deletePost_findByIdAndDelete(r) ==
  /\ creq[r].pc = "dp_delete"
  /\ Post' = [Post EXCEPT ![creq[r].id] = nullDoc]
  /\ CProceed(r, [creq[r] EXCEPT !.pc = "dp_comments"])
  /\ UNCHANGED <<Comment, Vote, req, res, received, hist, clock, identityVars>>

\* deletePost 275: Comment.deleteMany({ post: id })
deletePost_deleteComments(r) ==
  /\ creq[r].pc = "dp_comments"
  /\ Comment' = [c \in DOMAIN Comment |->
                   IF Comment[c] # nullDoc /\ Comment[c].post = creq[r].id
                   THEN nullDoc ELSE Comment[c]]
  /\ CProceed(r, [creq[r] EXCEPT !.pc = "dp_votes"])
  /\ UNCHANGED <<Post, Vote, req, res, received, hist, clock, identityVars>>

\* deleteMany without a filter
votesOfPost_all(id) == Vote

\* the filter { targetId: id, targetType: "Post" }
votesOfPost(id) == RowsOn("Post", id)

\* deletePost 276-281: Vote.deleteMany({ targetId: id, targetType: "Post" })
deletePost_deleteVotes(r) ==
  /\ creq[r].pc = "dp_votes"
  /\ Vote' = Vote \ votesOfPost(creq[r].id)
  /\ CFinish(r, 200, "Post deleted successfully", nullDoc)
  /\ UNCHANGED <<Post, Comment, req, res, received, hist, clock, identityVars>>

\* ----------------------------------------------------------------- queries
\* the ids of the stored comments of collection C
Rows(C) == {i \in DOMAIN C : C[i] # nullDoc}

\* Comment.find({ post: postId, parentComment: null, isDeleted: false })
findTopLevel(C, postId) ==
  {i \in Rows(C) : C[i].post = postId /\ C[i].parentComment = noId /\ ~C[i].isDeleted}

\* the filter without isDeleted: false
findReplies_all(C, commentId) ==
  {i \in Rows(C) : C[i].parentComment = commentId}

\* Comment.find({ parentComment: commentId, isDeleted: false })
findReplies(C, commentId) ==
  {i \in Rows(C) : C[i].parentComment = commentId /\ ~C[i].isDeleted}

\* getPostComments 137: .limit(5), and 142: comment.replyCount > 5
RepliesShown == 5
MoreRepliesAbove == 5

\* getPostComments 98 / getCommentReplies 183: the query's sort, page and limit
\* (page = 1 and limit = 20, or 10 for replies, are the defaults)
Sorts == {"newest", "oldest", "popular"}
Pages == {1, 2}
Limits == {1, 20}
ReplyLimits == {2, 10}

\* the order of .sort(sortQuery): does comment a come before comment b
Before(C, sort, a, b) ==
  IF sort = "oldest" THEN C[a].createdAt < C[b].createdAt
  ELSE IF sort = "popular"
  THEN \/ C[a].votes.score > C[b].votes.score
       \/ /\ C[a].votes.score = C[b].votes.score
          /\ C[a].createdAt > C[b].createdAt
  ELSE C[a].createdAt > C[b].createdAt

\* .sort(sortQuery) of the found comments S
RECURSIVE Sorted(_, _, _)
Sorted(C, S, sort) ==
  IF S = {} THEN <<>>
  ELSE LET first == CHOOSE a \in S : \A b \in S \ {a} : Before(C, sort, a, b)
       IN <<first>> \o Sorted(C, S \ {first}, sort)

\* .skip(skip).limit(limit)
skipLimit(seq, skip, limit) ==
  SubSeq(seq, skip + 1, IF Len(seq) < skip + limit THEN Len(seq) ELSE skip + limit)

\* Math.ceil(total / limitNum)
totalPages(total, limit) == (total + limit - 1) \div limit

\* a read request arrives; reads write nothing, so they are handled here one
\* at a time
ListReceive(r) == \A q \in Reqs : ~CRunning(q) /\ r <= q

\* a read goes on: its locals are kept in slot r; the response to the read
\* before it has been delivered
ListProceed(r, q) ==
  /\ creq' = [creq EXCEPT ![r] = q]
  /\ cres' = noCRes
  /\ UNCHANGED tally

\* ---------------------------------------------------------- getPostComments
\* getPostComments 97-126: the page of top-level comments of the post
getPostComments_find(r) ==
  /\ ListReceive(r)
  /\ \E postId \in PostIds, sort \in Sorts, page \in Pages, limit \in Limits :
       LET q == CRequest("getPostComments", null, postId, noId, postId, null)
           skip == (page - 1) * limit
           comments == skipLimit(Sorted(Comment, findTopLevel(Comment, postId), sort),
                                 skip, limit)
       IN ListProceed(r, [q EXCEPT !.pc = "list_replies", !.sort = sort,
                                !.skip = skip, !.limit = limit,
                                !.comments = [k \in 1 .. Len(comments) |->
                                                [_id |-> comments[k],
                                                 replyCount |-> Comment[comments[k]].replyCount]]])
  /\ UNCHANGED <<Post, Comment, Vote, req, res, received, hist, clock, identityVars>>

\* getPostComments 129-145: for each comment its first replies, oldest first,
\* and hasMoreReplies from the replyCount the comment was loaded with
getPostComments_replies(r) ==
  /\ creq[r].pc = "list_replies"
  /\ LET q == creq[r]
     IN CProceed(r, [q EXCEPT !.pc = "list_count",
                              !.replies =
                                [k \in 1 .. Len(q.comments) |->
                                   [_id |-> q.comments[k]._id,
                                    replies |-> skipLimit(Sorted(Comment,
                                                   findReplies(Comment, q.comments[k]._id),
                                                   "oldest"), 0, RepliesShown),
                                    hasMoreReplies |->
                                      q.comments[k].replyCount > MoreRepliesAbove]]])
  /\ UNCHANGED <<Post, Comment, Vote, req, res, received, hist, clock, identityVars>>

\* getPostComments 147-167: countDocuments and the response
getPostComments_count(r) ==
  /\ creq[r].pc = "list_count"
  /\ LET totalComments == Cardinality(findTopLevel(Comment, creq[r].postId))
     IN CFinish(r, 200, null,
                [comments |-> creq[r].replies, totalComments |-> totalComments,
                 totalPages |-> totalPages(totalComments, creq[r].limit)])
  /\ UNCHANGED <<Post, Comment, Vote, req, res, received, hist, clock, identityVars>>

\* -------------------------------------------------------- getCommentReplies
\* getCommentReplies 182-196: the page of replies of the comment, oldest first
getCommentReplies_find(r) ==
  /\ ListReceive(r)
  /\ \E commentId \in KnownIds, page \in Pages, limit \in ReplyLimits :
       LET q == CRequest("getCommentReplies", null, noId, noId, commentId, null)
           skip == (page - 1) * limit
       IN ListProceed(r, [q EXCEPT !.pc = "replies_count", !.skip = skip, !.limit = limit,
                                !.replies = skipLimit(Sorted(Comment,
                                               findReplies(Comment, commentId), "oldest"),
                                               skip, limit)])
  /\ UNCHANGED <<Post, Comment, Vote, req, res, received, hist, clock, identityVars>>

\* getCommentReplies 198-217: countDocuments and the response
getCommentReplies_count(r) ==
  /\ creq[r].pc = "replies_count"
  /\ LET totalReplies == Cardinality(findReplies(Comment, creq[r].id))
     IN CFinish(r, 200, null,
                [replies |-> creq[r].replies, totalReplies |-> totalReplies,
                 totalPages |-> totalPages(totalReplies, creq[r].limit)])
  /\ UNCHANGED <<Post, Comment, Vote, req, res, received, hist, clock, identityVars>>

\* ------------------------------------------------------------- comment Spec
\* the database after post 1 (by B) received a comment, a reply to it and a
\* reply to the reply, one after another
InitTree ==
  /\ Post = [i \in PostIds |->
               IF i = 1 THEN [newPost("B") EXCEPT !.commentCount = 3] ELSE nullDoc]
  /\ Comment = [i \in CommentSlots |->
                  IF i = 1 THEN [newComment("seed", "A", 1, noId, 0, 1) EXCEPT !.replyCount = 1]
                  ELSE IF i = 2 THEN [newComment("seed", "B", 1, 1, 1, 2) EXCEPT !.replyCount = 1]
                  ELSE IF i = 3 THEN newComment("seed", "A", 1, 2, 2, 3)
                  ELSE nullDoc]
  /\ Vote = {}
  /\ req = [r \in Reqs |-> idleReq]
  /\ res = noRes
  /\ received = 0
  /\ hist = [t \in TargetTypes |-> [i \in Ids(t) |-> <<>>]]
  /\ creq = [r \in Reqs |-> idleCReq]
  /\ cres = noCRes
  /\ clock = 3
  /\ tally = CountersOf(Post, Comment)
  /\ InitIdentity

NextTree ==
  \/ \E r \in Reqs : addComment_findById(r)
  \/ \E r \in Reqs : addComment_findParent(r)
  \/ \E r \in Reqs : addComment_save(r)
  \/ \E r \in Reqs : addComment_incPost(r)
  \/ \E r \in Reqs : addComment_incParent(r)
  \/ \E r \in Reqs : updateComment_findById(r)
  \/ \E r \in Reqs : updateComment_save(r)
  \/ \E r \in Reqs : deleteComment_findById(r)
  \/ \E r \in Reqs : deleteComment_save(r)
  \/ \E r \in Reqs : deleteComment_decPost(r)
  \/ \E r \in Reqs : deleteComment_decParent(r)

SpecTree == InitTree /\ [][NextTree]_vars

\* the same database with a second post (by A) that has no comment yet
InitTwoPosts ==
  /\ Post = [i \in PostIds |->
               IF i = 1 THEN [newPost("B") EXCEPT !.commentCount = 3]
               ELSE newPost("A")]
  /\ Comment = [i \in CommentSlots |->
                  IF i = 1 THEN [newComment("seed", "A", 1, noId, 0, 1) EXCEPT !.replyCount = 1]
                  ELSE IF i = 2 THEN [newComment("seed", "B", 1, 1, 1, 2) EXCEPT !.replyCount = 1]
                  ELSE IF i = 3 THEN newComment("seed", "A", 1, 2, 2, 3)
                  ELSE nullDoc]
  /\ Vote = {}
  /\ req = [r \in Reqs |-> idleReq]
  /\ res = noRes
  /\ received = 0
  /\ hist = [t \in TargetTypes |-> [i \in Ids(t) |-> <<>>]]
  /\ creq = [r \in Reqs |-> idleCReq]
  /\ cres = noCRes
  /\ clock = 3
  /\ tally = CountersOf(Post, Comment)
  /\ InitIdentity

SpecTwoPosts == InitTwoPosts /\ [][NextTree]_vars

\* ---------------------------------------------------------------- listings
\* the replies of the seeded comment 1 and the other seeded comments
SeedRows == 1 .. (SeedReplies + 3)

\* the database after comment 1 (on post 1) received n replies of which those
\* in `gone` were deleted, A upvoted comment 1, a second top-level comment was
\* added to post 1 and deleted or not, and post 2 received one comment;
\* `twice` tells whether one of the deleted replies was deleted twice
SeedComments(n, gone, secondGone, twice) ==
  [i \in SeedRows |->
     IF i = 1
     THEN [newComment("seed", "A", 1, noId, 0, 1) EXCEPT
             !.replyCount = n - Cardinality(gone) - (IF twice THEN 1 ELSE 0),
             !.votes = [upvotes |-> 1, downvotes |-> 0, score |-> scoreOf(1, 0)]]
     ELSE IF i <= n + 1
     THEN IF i \in gone
          THEN [newComment(placeholder, "B", 1, 1, 1, i) EXCEPT !.isDeleted = TRUE]
          ELSE newComment("seed", "B", 1, 1, 1, i)
     ELSE IF i = n + 2
     THEN IF secondGone
          THEN [newComment(placeholder, "A", 1, noId, 0, i) EXCEPT !.isDeleted = TRUE]
          ELSE newComment("seed", "A", 1, noId, 0, i)
     ELSE IF i = n + 3 THEN newComment("seed", "A", 2, noId, 0, i)
     ELSE nullDoc]

InitList ==
  /\ \E n \in 0 .. SeedReplies : \E gone \in SUBSET (2 .. (n + 1)) :
       \E secondGone \in BOOLEAN : \E twice \in BOOLEAN :
         /\ twice => gone # {}
         /\ Comment = SeedComments(n, gone, secondGone, twice)
         /\ Post = [i \in PostIds |->
                      IF i = 1
                      THEN [newPost("B") EXCEPT
                              !.commentCount = n + 1 - Cardinality(gone)
                                                 - (IF twice THEN 1 ELSE 0)
                                                 + (IF secondGone THEN 0 ELSE 1)]
                      ELSE [newPost("A") EXCEPT !.commentCount = 1]]
         /\ clock = n + 3
  /\ Vote = {[_id |-> 1, user |-> "A", targetType |-> "Comment", targetId |-> 1,
              voteType |-> "upvote"]}
  /\ req = [r \in Reqs |-> idleReq]
  /\ res = noRes
  /\ received = 0
  /\ hist = [t \in TargetTypes |-> [i \in Ids(t) |-> <<>>]]
  /\ creq = [r \in Reqs |-> idleCReq]
  /\ cres = noCRes
  /\ tally = CountersOf(Post, Comment)
  /\ InitIdentity

NextList ==
  \/ \E r \in Reqs : getPostComments_find(r)
  \/ \E r \in Reqs : getPostComments_replies(r)
  \/ \E r \in Reqs : getPostComments_count(r)
  \/ \E r \in Reqs : getCommentReplies_find(r)
  \/ \E r \in Reqs : getCommentReplies_count(r)

SpecList == InitList /\ [][NextList]_vars

\* ------------------------------------------- votes, comments and deletePost
\* the database of InitTree after A upvoted post 1 and B downvoted comment 1
InitAll ==
  /\ Post = [i \in PostIds |->
               IF i = 1 THEN [newPost("B") EXCEPT
                                !.commentCount = 3,
                                !.votes = [upvotes |-> 1, downvotes |-> 0,
                                           score |-> scoreOf(1, 0)]]
               ELSE nullDoc]
  /\ Comment = [i \in CommentSlots |->
                  IF i = 1 THEN [newComment("seed", "A", 1, noId, 0, 1) EXCEPT
                                   !.replyCount = 1,
                                   !.votes = [upvotes |-> 0, downvotes |-> 1,
                                              score |-> scoreOf(0, 1)]]
                  ELSE IF i = 2 THEN [newComment("seed", "B", 1, 1, 1, 2) EXCEPT !.replyCount = 1]
                  ELSE IF i = 3 THEN newComment("seed", "A", 1, 2, 2, 3)
                  ELSE nullDoc]
  /\ Vote = {[_id |-> 1, user |-> "A", targetType |-> "Post", targetId |-> 1,
              voteType |-> "upvote"],
             [_id |-> 2, user |-> "B", targetType |-> "Comment", targetId |-> 1,
              voteType |-> "downvote"]}
  /\ req = [r \in Reqs |-> idleReq]
  /\ res = noRes
  /\ received = 0
  /\ hist = [t \in TargetTypes |-> [i \in Ids(t) |-> <<>>]]
  /\ creq = [r \in Reqs |-> idleCReq]
  /\ cres = noCRes
  /\ clock = 3
  /\ tally = CountersOf(Post, Comment)
  /\ InitIdentity

\* every handler; a request is received within the budget of this specification
MixedBudget == received < MaxMixedRequests

NextAll ==
  \/ \E r \in Reqs : MixedBudget /\ votePost_findById(r)
  \/ \E r \in Reqs : votePost_findOne(r)
  \/ \E r \in Reqs : votePost_ledger(r)
  \/ \E r \in Reqs : votePost_updateVoteScore(r)
  \/ \E r \in Reqs : MixedBudget /\ voteComment_findById(r)
  \/ \E r \in Reqs : voteComment_findOne(r)
  \/ \E r \in Reqs : voteComment_ledger(r)
  \/ \E r \in Reqs : voteComment_updateVoteScore(r)
  \/ \E r \in Reqs : MixedBudget /\ addComment_findById(r)
  \/ \E r \in Reqs : addComment_findParent(r)
  \/ \E r \in Reqs : addComment_save(r)
  \/ \E r \in Reqs : addComment_incPost(r)
  \/ \E r \in Reqs : addComment_incParent(r)
  \/ \E r \in Reqs : MixedBudget /\ updateComment_findById(r)
  \/ \E r \in Reqs : updateComment_save(r)
  \/ \E r \in Reqs : MixedBudget /\ deleteComment_findById(r)
  \/ \E r \in Reqs : deleteComment_save(r)
  \/ \E r \in Reqs : deleteComment_decPost(r)
  \/ \E r \in Reqs : deleteComment_decParent(r)
  \/ \E r \in Reqs : MixedBudget /\ deletePost_findById(r)
  \/ \E r \in Reqs : deletePost_findByIdAndDelete(r)
  \/ \E r \in Reqs : deletePost_deleteComments(r)
  \/ \E r \in Reqs : deletePost_deleteVotes(r)

SpecAll == InitAll /\ [][NextAll]_vars

\* ======================================================= claims: comments
\* C11: every stored comment has a depth in 0..3, depth 0 exactly when it has
\* no parent, and its parent's depth + 1 when it has one; and no step of
\* addComment, updateComment or deleteComment changes the depth of a comment.
C11_DepthFollowsParent ==
  /\ [](\A c \in Rows(Comment) :
          /\ Comment[c].depth \in 0 .. 3
          /\ Comment[c].depth = 0 <=> Comment[c].parentComment = noId
          /\ Comment[c].parentComment # noId =>
               /\ Comment[c].parentComment \in Rows(Comment)
               /\ Comment[c].depth = Comment[Comment[c].parentComment].depth + 1)
  /\ [][\A c \in Rows(Comment) :
          c \in Rows(Comment') /\ Comment'[c].depth = Comment[c].depth]_vars

\* two comments were added: a reply at the deepest level and a top-level one
C11_Witness ==
  /\ \E c \in Rows(Comment) : c > 3 /\ Comment[c].depth = 3
  /\ \E c \in Rows(Comment) : c > 3 /\ Comment[c].parentComment = noId

\* the direct replies of a comment, the deleted ones too
RepliesOf(C, commentId) == {i \in Rows(C) : C[i].parentComment = commentId}

\* the slots whose handler the step moves from position `from` to position `to`
Moved(from, to) == {r \in Reqs : creq[r].pc = from /\ creq'[r].pc = to}

\* the step receives a request that is answered at once
Refused(op) == received' = received + 1 /\ creq' = creq /\ cres'.op = op

\* C12: addComment naming a parent of depth 3 is answered 400 (maximum depth),
\* one naming a parentCommentId that is no comment is answered 404; in both
\* cases no comment is created and no commentCount or replyCount changes. With
\* a parent of depth 2 it goes on, creates a comment of depth 3 and answers 201.
C12_DepthLimitAndUnknownParent ==
  [][/\ \A r \in Moved("idle", "add_findParent") : UNCHANGED <<Post, Comment>>
     /\ \A r \in Reqs :
          (creq[r].pc = "add_findParent" /\ creq'[r].pc # "add_findParent") =>
            LET id == creq[r].parentCommentId
            IN IF id \notin Rows(Comment)
               THEN /\ creq'[r].pc = "idle" /\ cres'.status = 404
                    /\ UNCHANGED <<Post, Comment>>
               ELSE IF Comment[id].depth = 3
               THEN /\ creq'[r].pc = "idle" /\ cres'.status = 400
                    /\ cres'.message = "Maximum comment nesting depth reached"
                    /\ UNCHANGED <<Post, Comment>>
               ELSE /\ creq'[r].pc = "add_save"
                    /\ creq'[r].depth = Comment[id].depth + 1
     /\ \A r \in Moved("add_save", "add_incPost") :
          /\ Rows(Comment') = Rows(Comment) \cup {creq'[r].newId}
          /\ creq'[r].newId \notin Rows(Comment)
          /\ Comment'[creq'[r].newId].depth = creq[r].depth
          /\ Comment'[creq'[r].newId].parentComment = creq[r].parentCommentId
     /\ \A r \in Reqs :
          (creq[r].pc \in {"add_save", "add_incPost", "add_incParent"}
             /\ creq'[r].pc = "idle") => cres'.status = 201]_vars

\* a reply to the depth-2 comment was added, and a reply to that reply refused
C12_Witness ==
  /\ cres.op = "addComment" /\ cres.status = 400
  /\ cres.message = "Maximum comment nesting depth reached"
  /\ \E c \in Rows(Comment) : c > 3 /\ Comment[c].depth = 3

\* the addComment runs that have added to the post's commentCount and not yet
\* answered, and the deleteComment runs that have taken from it
AddedTo(p) ==
  {r \in Reqs : creq[r].pc = "add_incParent" /\ creq[r].postId = p}
TakenFrom(p) ==
  {r \in Reqs : creq[r].pc = "del_decParent" /\ creq[r].doc.post = p}

\* C13: every successful addComment raises the commentCount of its post by
\* exactly 1 and, when it names a parent, the parent's replyCount by exactly 1,
\* also when requests run concurrently (n successful adds raise a counter by
\* n), and changes no other counter: every counter is its initial value plus
\* the adds answered 201 minus the deletes answered 200 (and the counter
\* updates of the runs still in flight).
C13_EachAddCountsOnce ==
  /\ [](/\ \A p \in Rows(Post) :
             Post[p].commentCount =
               tally.post[p] + Cardinality(AddedTo(p)) - Cardinality(TakenFrom(p))
        /\ \A c \in Rows(Comment) : Comment[c].replyCount = tally.reply[c])
  /\ [][/\ \A r \in Reqs :
             (creq[r].pc = "add_incPost" /\ creq'[r].pc # "add_incPost") =>
               /\ Post' = [Post EXCEPT ![creq[r].postId].commentCount = @ + 1]
               /\ Comment' = Comment
        /\ \A r \in Moved("add_incParent", "idle") :
             /\ Comment' = [Comment EXCEPT ![creq[r].parentCommentId].replyCount = @ + 1]
             /\ Post' = Post]_vars

\* two replies to one comment are being added at the same time: both have
\* raised the post's commentCount
C13_Witness ==
  /\ \A r \in 1 .. 2 : creq[r].pc = "add_incParent"
  /\ creq[1].parentCommentId = creq[2].parentCommentId
  /\ Post[1].commentCount = tally.post[1] + 2

\* C14: deleteComment on a comment that is already deleted fails (NotFound or
\* Conflict) and changes nothing: no run of deleteComment gets past its lookup
\* with a comment whose isDeleted is already true.
C14_DeleteOfDeletedIsRefused ==
  [][\A r \in Moved("idle", "del_save") : ~creq'[r].doc.isDeleted]_vars

\* C15: under any sequence of addComment and deleteComment, repeated deletes
\* of one comment included, no commentCount and no replyCount is negative.
C15_CountsNeverNegative ==
  /\ \A p \in Rows(Post) : Post[p].commentCount >= 0
  /\ \A c \in Rows(Comment) : Comment[c].replyCount >= 0

\* C16: deleteComment never removes a row; when a delete is answered 200 the
\* comment is still stored, with isDeleted = true and the placeholder as
\* content; no step of the delete changes a reply of the comment, so each reply
\* is still found by its id and by the replies query of the deleted comment;
\* the deleted comment is in no top-level and no replies result.
C16_SoftDelete ==
  [][/\ Rows(Comment) \subseteq Rows(Comment')
     /\ \A r \in Reqs :
          (creq[r].op = "deleteComment" /\ creq[r].pc # "idle" /\ creq'[r] # creq[r]) =>
            /\ \A c \in RepliesOf(Comment, creq[r].id) : Comment'[c] = Comment[c]
            /\ findReplies(Comment', creq[r].id) = findReplies(Comment, creq[r].id)
     /\ \A r \in Reqs :
          (creq[r].op = "deleteComment" /\ creq[r].pc # "idle"
             /\ creq'[r].pc = "idle" /\ cres'.status = 200) =>
            LET id == creq[r].id
            IN /\ id \in Rows(Comment')
               /\ Comment'[id].isDeleted
               /\ Comment'[id].content = placeholder
               /\ id \notin findTopLevel(Comment', Comment'[id].post)
               /\ id \notin findReplies(Comment', Comment'[id].parentComment)]_vars

C18_DeletedIsTerminal ==
  [][\A c \in Rows(Comment) :
       Comment[c].isDeleted =>
         /\ c \in Rows(Comment')
         /\ Comment'[c].isDeleted
         /\ Comment'[c].content = Comment[c].content
         /\ Comment'[c].isEdited = Comment[c].isEdited
         /\ Comment'[c].editedAt = Comment[c].editedAt]_vars

\* the step is the one write of a vote request to the Vote collection
LedgerStep == \E r \in Reqs : req[r].pc = "ledger" /\ req'[r] # req[r]

\* the step is the counter write of a vote request on the entity
ScoreStep(targetType, id) ==
  \E r \in Reqs : /\ req[r].pc = "updateVoteScore" /\ req'[r].pc = "idle"
                  /\ req[r].targetType = targetType /\ req[r].id = id

\* the step belongs to a run of addComment or deleteComment
CountingStep ==
  \E r \in Reqs : /\ creq[r].op \in {"addComment", "deleteComment"}
                  /\ creq[r].pc # "idle" /\ creq'[r] # creq[r]

\* the step belongs to a run of deletePost on post p
DeletePostStep(p) ==
  \E r \in Reqs : /\ creq[r].op = "deletePost" /\ creq[r].id = p
                  /\ creq[r].pc # "idle" /\ creq'[r] # creq[r]

\* upvotes, downvotes, score are written by vote requests on the entity only,
\* commentCount and replyCount by addComment and deleteComment only
CountersFramed ==
  /\ \A p \in Rows(Post) \cap Rows(Post') :
       /\ Post'[p].votes # Post[p].votes => ScoreStep("Post", p)
       /\ Post'[p].commentCount # Post[p].commentCount => CountingStep
  /\ \A c \in Rows(Comment) \cap Rows(Comment') :
       /\ Comment'[c].votes # Comment[c].votes => ScoreStep("Comment", c)
       /\ Comment'[c].replyCount # Comment[c].replyCount => CountingStep

\* C19, as stated: Vote rows are created, changed or deleted only by the vote
\* operations; upvotes, downvotes and score of an entity are changed only by a
\* vote operation on that entity; commentCount and replyCount only by
\* addComment and deleteComment.
C19_Stated ==
  [][(Vote' # Vote => LedgerStep) /\ CountersFramed]_vars

\* C19: Vote rows are created and changed only by the vote operations and
\* deleted only by them or by deletePost, which removes exactly the rows cast
\* on the deleted post; a post or comment row disappears only by deletePost of
\* its post; upvotes, downvotes and score of an entity are changed only by a
\* vote operation on that entity, commentCount and replyCount only by
\* addComment and deleteComment.
C19_WritersOfVotesAndCounters ==
  [][/\ Vote' # Vote =>
          \/ LedgerStep
          \/ \E p \in PostIds :
               /\ DeletePostStep(p)
               /\ Vote' = {v \in Vote : ~(v.targetType = "Post" /\ v.targetId = p)}
     /\ \A p \in Rows(Post) : p \notin Rows(Post') => DeletePostStep(p)
     /\ \A c \in Rows(Comment) :
          c \notin Rows(Comment') => DeletePostStep(Comment[c].post)
     /\ CountersFramed]_vars

\* post 1 was deleted: the vote cast on it is gone, the one on its comment is not
C19_Witness ==
  /\ cres.op = "deletePost" /\ cres.status = 200
  /\ RowsOn("Post", cres.id) = {}
  /\ \E v \in Vote : v.targetType = "Comment"

\* the non-deleted direct replies of comment c
LiveReplies(c) == {x \in RepliesOf(Comment, c) : ~Comment[x].isDeleted}

\* C20: the listing of the top-level comments of a post gives, for each listed
\* comment, at most 5 replies, which are its oldest non-deleted direct replies
\* in ascending order of creation, and hasMoreReplies = (replyCount > 5); only
\* non-deleted comments without parent of the requested post are listed.
C20_TopLevelListing ==
  (cres.op = "getPostComments" /\ cres.status = 200) =>
    \A k \in 1 .. Len(cres.data.comments) :
      LET item == cres.data.comments[k]
          c == item._id
          shown == {item.replies[j] : j \in 1 .. Len(item.replies)}
      IN /\ c \in Rows(Comment)
         /\ ~Comment[c].isDeleted
         /\ Comment[c].parentComment = noId
         /\ Comment[c].post = cres.id
         /\ Len(item.replies) <= 5
         /\ shown \subseteq LiveReplies(c)
         /\ \A i \in 1 .. Len(item.replies) : \A j \in 1 .. Len(item.replies) :
              i < j => Comment[item.replies[i]].createdAt < Comment[item.replies[j]].createdAt
         /\ \A x \in LiveReplies(c) \ shown :
              /\ Len(item.replies) = 5
              /\ \A y \in shown : Comment[y].createdAt < Comment[x].createdAt
         /\ item.hasMoreReplies = (Comment[c].replyCount > 5)

\* a listed comment has more than five live replies and an older deleted one:
\* five are shown, the deleted one is skipped, hasMoreReplies is true
C20_Witness ==
  /\ cres.op = "getPostComments" /\ cres.status = 200
  /\ \E k \in 1 .. Len(cres.data.comments) :
       LET item == cres.data.comments[k]
       IN /\ Len(item.replies) = 5
          /\ item.hasMoreReplies
          /\ \E x \in RepliesOf(Comment, item._id) :
               /\ Comment[x].isDeleted
               /\ Comment[x].createdAt < Comment[item.replies[5]].createdAt
          /\ Cardinality(LiveReplies(item._id)) > 5


\* ---- counters against the ledger
\* the rows of the ledger cast on a target with a vote type
LedgerCount(targetType, id, voteType) ==
  Cardinality({v \in RowsOn(targetType, id) : v.voteType = voteType})

\* C21: whenever no vote request is in progress, every target's upvotes equals
\* the number of its ledger rows with voteType upvote and its downvotes the
\* number with voteType downvote, whatever the interleaving of the completed
\* vote requests: two concurrent votes of two users are both counted.
C21_CountersMatchLedger ==
  (\A r \in Reqs : ~Running(r)) =>
    \A t \in TargetTypes : \A i \in Existing(t) :
      /\ Stored(t, i).upvotes = LedgerCount(t, i, "upvote")
      /\ Stored(t, i).downvotes = LedgerCount(t, i, "downvote")

\* ---- counters against the stored comments
\* the comments of a post that are not deleted
LiveComments(p) ==
  {c \in Rows(Comment) : Comment[c].post = p /\ ~Comment[c].isDeleted}

\* C22: whenever no comment request is in progress, every comment's replyCount
\* is the number of its non-deleted direct replies and every post's
\* commentCount is the number of non-deleted comments on the post (so that
\* replyCount > 5 says that more than 5 live replies exist).
C22_CountsMatchLiveComments ==
  (\A r \in Reqs : ~CRunning(r)) =>
    /\ \A c \in Rows(Comment) :
         Comment[c].replyCount = Cardinality(LiveReplies(c))
    /\ \A p \in Rows(Post) :
         Post[p].commentCount = Cardinality(LiveComments(p))

\* ---- replies and the post of their parent
\* C23: in every reachable state a comment that has a parent belongs to the
\* post of its parent: addComment stores no reply whose post differs from the
\* post of the parent comment, and counts it on the post holding the parent.
C23_ReplyOnParentsPost ==
  \A c \in Rows(Comment) :
    LET parent == Comment[c].parentComment
    IN  (parent # noId /\ Comment[parent] # nullDoc)
          => Comment[c].post = Comment[parent].post

\* =================================================== accounts and login
\* ------------------------------------------------------------------ bounds
MaxLoginRequests == 3
MaxTicks == 2

\* ------------------------------------------------------------- input sets
\* req.body.email: the address of an account, or one nobody registered
Emails == Users \cup {"nobody"}
\* req.body.password
Passwords == {registeredPassword, "wrong", ""}
\* the Authorization header: none, a token jwt.verify refuses, or the token
\* of an account
Tokens == {null, "bad"} \cup Users

\* ------------------------------------------------------------ User schema
\* failed attempts after which incrementLoginAttempts locks the account
maxAttempts == 3
\* how long it locks the account for
lockFor == 12 * 60 * 60 * 1000

\* userSchema.virtual("isLocked")
isLocked(user, at) == user.lockUntil # noDate /\ user.lockUntil > at

\* userSchema.methods.comparePassword
comparePassword(user, candidatePassword) == user.password = hash(candidatePassword)

\* an update document: paths to $set with their values, paths to $inc with
\* their amounts, paths to $unset
updateDoc(set, inc, unset) == [set |-> set, inc |-> inc, unset |-> unset]

\* userSchema.methods.incrementLoginAttempts: the update it hands to updateOne
incrementLoginAttempts(user, at) ==
  IF user.lockUntil # noDate /\ user.lockUntil < at
  THEN updateDoc({<<"loginAttempts", 1>>}, {}, {"lockUntil"})
  ELSE updateDoc(IF user.loginAttempts + 1 >= maxAttempts /\ ~isLocked(user, at)
                 THEN {<<"lockUntil", at + lockFor>>} ELSE {},
                 {<<"loginAttempts", 1>>}, {})

\* userSchema.methods.resetLoginAttempts: the update it hands to updateOne
resetLoginAttempts(user, at) ==
  updateDoc({<<"lastLogin", at>>}, {}, {"loginAttempts", "lockUntil"})

\* the methods the schema gives a User document
UserMethods ==
  {"comparePassword", "generateAuthToken", "incrementLoginAttempts",
   "resetLoginAttempts"}

\* user[name](): calling a property the document does not have throws a
\* TypeError, a method of the schema returns its update query
callMethod(name, user, at) ==
  IF name \notin UserMethods THEN [threw |-> TRUE, update |-> nullDoc]
  ELSE [threw |-> FALSE,
        update |-> IF name = "incrementLoginAttempts"
                   THEN incrementLoginAttempts(user, at)
                   ELSE resetLoginAttempts(user, at)]

\* what a document reads for a path that $unset removed: the schema default
unsetValue(path) == IF path = "loginAttempts" THEN 0 ELSE noDate

\* the stored document after updateOne(update)
applyUpdate(user, update) ==
  [path \in DOMAIN user |->
     IF \E a \in update.set : a[1] = path
     THEN (CHOOSE a \in update.set : a[1] = path)[2]
     ELSE IF \E a \in update.inc : a[1] = path
     THEN user[path] + (CHOOSE a \in update.inc : a[1] = path)[2]
     ELSE IF path \in update.unset THEN unsetValue(path)
     ELSE user[path]]

\* ------------------------------------------------------------ POST /login
LRunning(r) == lreq[r].pc # "idle"

\* a request arrives and is given the first free slot
LReceive(r) ==
  /\ ~LRunning(r)
  /\ \A q \in Reqs : q < r => LRunning(q)
  /\ received < MaxLoginRequests
  /\ received' = received + 1

\* res.status(status).json(...) answering a login with (email, password)
LAnswer(email, password, status) ==
  [op |-> "login", email |-> email, password |-> password, status |-> status]

\* loginValidation: the password is not empty
loginValid(password) == password # ""

\* validation, User.findOne({ email }).select("+password"), the lock test
login_findOne(r) ==
  /\ LReceive(r)
  /\ \E email \in Emails : \E password \in Passwords :
       IF ~loginValid(password)
       THEN lres' = LAnswer(email, password, 400) /\ UNCHANGED lreq
       ELSE IF email \notin Users
       THEN lres' = LAnswer(email, password, 401) /\ UNCHANGED lreq
       ELSE IF isLocked(User[email], now)
       THEN lres' = LAnswer(email, password, 423) /\ UNCHANGED lreq
       ELSE /\ lreq' = [lreq EXCEPT ![r] =
                          [idleLReq EXCEPT !.pc = "comparePassword", !.email = email,
                                           !.password = password, !.user = User[email]]]
            /\ UNCHANGED lres
  /\ UNCHANGED <<Post, Comment, Vote, req, res, hist, commentVars, User, now>>

\* await user.comparePassword(password), then the call of the method that
\* records the outcome; a call that throws ends in the catch (500)
login_comparePassword(r) ==
  LET q == lreq[r]
      valid == comparePassword(q.user, q.password)
      call == callMethod(IF valid THEN "resetLoginAttempts" ELSE "incLoginAttempts",
                         q.user, now)
  IN /\ q.pc = "comparePassword"
     /\ IF call.threw
        THEN /\ lreq' = [lreq EXCEPT ![r] = idleLReq]
             /\ lres' = LAnswer(q.email, q.password, 500)
        ELSE /\ lreq' = [lreq EXCEPT ![r] =
                           [q EXCEPT !.pc = "updateOne", !.update = call.update,
                                     !.status = IF valid THEN 200 ELSE 401]]
             /\ UNCHANGED lres
     /\ UNCHANGED <<Post, Comment, Vote, req, res, received, hist, commentVars,
                    User, now>>

\* the awaited updateOne of the method, then the response
login_updateOne(r) ==
  LET q == lreq[r]
  IN /\ q.pc = "updateOne"
     /\ User' = [User EXCEPT ![q.email] = applyUpdate(@, q.update)]
     /\ lreq' = [lreq EXCEPT ![r] = idleLReq]
     /\ lres' = LAnswer(q.email, q.password, q.status)
     /\ UNCHANGED <<Post, Comment, Vote, req, res, received, hist, commentVars, now>>

\* --------------------------------------------------------- auth middleware
\* the auth middleware in front of every private route; status 0 stands for
\* next(): the request is handed to its handler and nothing is answered here
auth(token) ==
  /\ received < MaxLoginRequests
  /\ received' = received + 1
  /\ lres' = [op |-> "auth", email |-> token, password |-> null,
              status |-> IF token \notin Users THEN 401
                         ELSE IF isLocked(User[token], now) THEN 403
                         ELSE 0]
  /\ UNCHANGED <<Post, Comment, Vote, req, res, hist, commentVars, User, lreq, now>>

\* time passes
Tick ==
  /\ now < tickStep * (1 + MaxTicks)
  /\ now' = now + tickStep
  /\ UNCHANGED <<Post, Comment, Vote, req, res, received, hist, commentVars,
                 User, lreq, lres>>

NextLogin ==
  \/ \E r \in Reqs : login_findOne(r)
  \/ \E r \in Reqs : login_comparePassword(r)
  \/ \E r \in Reqs : login_updateOne(r)
  \/ \E token \in Tokens : auth(token)
  \/ Tick

SpecLogin == Init /\ [][NextLogin]_vars

\* ---- login lockout
\* the slots whose login run the step ends
LEnded == {r \in Reqs : LRunning(r) /\ lreq'[r].pc = "idle"}

\* the step answers a request on the account of email that it received itself
AnsweredAtOnce(op, email) ==
  /\ received' = received + 1
  /\ lres'.op = op /\ lres'.email = email
  /\ \A r \in Reqs : lreq'[r] = lreq[r]

\* a login with a wrong password on an existing account that was not locked
\* when it was looked up is answered 401 and adds one to loginAttempts
WrongPasswordCounts ==
  \A r \in LEnded :
    ~comparePassword(lreq[r].user, lreq[r].password) =>
      /\ lres'.status = 401
      /\ User'[lreq[r].email].loginAttempts = User[lreq[r].email].loginAttempts + 1

\* the attempt that brings loginAttempts to 3 locks the account for 12 hours
ThirdFailureLocks ==
  \A u \in Users :
    (User[u].loginAttempts < maxAttempts /\ User'[u].loginAttempts >= maxAttempts)
      => User'[u].lockUntil = now + lockFor

\* while an account is locked a login on it is answered 423, whatever the
\* password, and a request carrying its token is answered 403
LockedIsRefused ==
  \A u \in Users :
    isLocked(User[u], now) =>
      /\ (AnsweredAtOnce("login", u) /\ loginValid(lres'.password)) => lres'.status = 423
      /\ AnsweredAtOnce("auth", u) => lres'.status = 403
      /\ \A r \in LEnded : lreq[r].email = u => lres'.status # 200

\* a login with the right password on an unlocked account is answered 200,
\* and a login answered 200 leaves loginAttempts at 0 and no lock
SuccessResets ==
  \A r \in LEnded :
    /\ comparePassword(lreq[r].user, lreq[r].password) => lres'.status = 200
    /\ lres'.status = 200 =>
         /\ User'[lreq[r].email].loginAttempts = 0
         /\ User'[lreq[r].email].lockUntil = noDate

\* C24: login lockout. A login with a wrong password on an existing, unlocked
\* account answers 401 and adds 1 to the account's loginAttempts; once 3 failed
\* attempts have accumulated the account is locked for 12 hours, during which
\* every login answers 423 and authenticated requests answer 403; a successful
\* login resets loginAttempts and clears the lock.
C24_LoginLockout ==
  [][/\ WrongPasswordCounts
     /\ ThirdFailureLocks
     /\ LockedIsRefused
     /\ SuccessResets]_vars

====
